---- MODULE Spec2Model ----
(***************************************************************************)
(* Model of src/src/p2p.rs: start_node, the startup sequence of a margo    *)
(* P2P node and its event loop over the libp2p Swarm.                      *)
(*                                                                         *)
(* The program's own code is start_node (startup, then one match per       *)
(* SwarmEvent).  The Swarm it drives (transport, connection pool, mDNS,    *)
(* identify, ping) is the environment: its state is the listener, the     *)
(* connection table, the pending dials and the mDNS records, and its steps *)
(* are the actions that append one SwarmEvent to the stream that           *)
(* select_next_some() reads.                                               *)
(***************************************************************************)
EXTENDS Naturals, Sequences, FiniteSets, TLC

(* ------------------------------ bounds --------------------------------- *)

\* Steps the swarm takes in one run (events it produces, announcements it
\* absorbs), after the listener's first event and not counting the close of
\* each connection.
MaxEvents == 3

\* The same, in the runs checked for liveness.
MaxFairEvents == 2

\* Events the swarm holds ready between two iterations of the loop.
MaxQueue == 2

\* Records carried by one mDNS Discovered / Expired event.
MaxBatch == 2

(* ------------------------------ values --------------------------------- *)

\* The identity SwarmBuilder::with_new_identity() generates: a peer id that is
\* none of the remote peers'.
LocalKeys == {"k1"}

\* Remote peers, and the records mDNS can report: p1 announces itself at two
\* addresses; p2 is not on the local segment and only dials in.
Peers == {"p1", "p2"}

MdnsRecords ==
    { [peer |-> "p1", addr |-> "a1"],
      [peer |-> "p1", addr |-> "a2"] }

\* The listen_addr argument: an address the transport can bind that names one
\* interface and port ("ok"), one it can bind that leaves them open ("any",
\* such as /ip4/0.0.0.0/tcp/0), one it cannot parse, and one whose port is
\* taken.
ConcreteAddrs == {"ok"}
UnspecifiedAddrs == {"any"}
ValidAddrs == ConcreteAddrs \cup UnspecifiedAddrs

\* The addresses a listener on an unspecified address is bound to, one per
\* interface, in the order the transport reports them.
InterfaceAddrs == << "if1", "if2" >>
MalformedAddrs == {"malformed"}
BoundAddrs == {"in_use"}
ListenAddrs == ValidAddrs \cup MalformedAddrs \cup BoundAddrs

NoPeer == "-"
NoAddr == "-"

VARIABLES
    pc,             \* where start_node is: "init", "loop", "returned", "panicked"
    result,         \* what start_node returned: "none", "Transport", "Listen"
    listen_addr,    \* the listen_addr argument
    local_peer_id,  \* swarm.local_peer_id(), "-" before the swarm is built
    mdns_peer_id,   \* the peer id mdns::Behaviour::new was given
    listen_called,  \* listen_on's outcome: "none", "ok", "err"
    listener,       \* the listener: "none", "pending", "active", "failed"
    events,         \* SwarmEvents produced and not yet returned to the loop
    emitted,        \* number of steps the swarm has taken: events produced
                    \* and announcements absorbed
    budget,         \* number of steps the swarm may take in this run
    established,    \* the swarm's connection table: set of [conn, peer, endpoint]
    pending,        \* outgoing dials in progress: set of [conn, peer, addr]
    next_conn,      \* the next ConnectionId
    mdns_nodes,     \* mDNS's discovered, unexpired records
    mdns_renewed,   \* those of them whose TTL a later announcement renewed
    taken,          \* events the loop has taken, in order
    out             \* what start_node did: lines printed and dials issued

vars == << pc, result, listen_addr, local_peer_id, mdns_peer_id, listen_called,
           listener, events, emitted, budget, established, pending,
           next_conn, mdns_nodes, mdns_renewed, taken, out >>

(* ------------------------------ helpers -------------------------------- *)

Range(s) == { s[i] : i \in 1..Len(s) }

\* Sequences of distinct records, of length 1..MaxBatch.
Batches(S) ==
    { b \in UNION { [1..n -> S] : n \in 1..MaxBatch } :
        \A i, j \in 1..Len(b) : i # j => b[i] # b[j] }

\* A SwarmEvent.  peers: the records of an mDNS event; conn: the connection
\* of a connection or protocol event; info: the ping result, the close cause.
Event(kind, peers, peer, addr, conn, info) ==
    [kind |-> kind, peers |-> peers, peer |-> peer, addr |-> addr,
     conn |-> conn, info |-> info]

\* One thing start_node did: a println! (k = "print") or a swarm.dial
\* (k = "dial").  ev is the number of the taken event whose arm did it,
\* 0 for startup.
Did(k, what, peer, addr, conn, info, ev) ==
    [k |-> k, what |-> what, peer |-> peer, addr |-> addr, conn |-> conn,
     info |-> info, ev |-> ev]

Println(what, peer, addr, conn, info, ev) ==
    Did("print", what, peer, addr, conn, info, ev)


(* --------------------------- start_node: startup ----------------------- *)

\* swarm.listen_on(listen_addr): the transport binds a valid address and
\* rejects one it cannot parse or whose port is taken.
ListenOn(addr) == IF addr \in ValidAddrs THEN "ok" ELSE "err"

\* .context(TransportSnafu)? : a transport error returns from start_node.
TransportFatal(tcp) == tcp = "err"

\* .expect("mDNS behaviour creation should not fail"): an mDNS error panics.
MdnsPanics(mdns) == mdns = "err"

\* The slip of dropping listen_on's Result instead of propagating it.
ListenErrorIgnored(res) == FALSE

\* .context(ListenSnafu)? : a listen error returns from start_node.
ListenFatal(res) == res = "err"

\* key.public().to_peer_id(): the peer id is a function of the key.
ToPeerId(key) == "id-" \o key

\* The slip of building the discovery behaviour on a keypair of its own.
SecondIdentity(key) == ToPeerId("k2")

\* The peer id mdns::Behaviour::new is given inside with_behaviour.
MdnsPeerId(key) == ToPeerId(key)

\* swarm.local_peer_id(): build() derives it from the builder's keypair.
SwarmPeerId(key) == ToPeerId(key)

StartingLine == Println("Starting", NoPeer, NoAddr, 0, "-", 0)

LocalPeerIdLine(id) == Println("LocalPeerId", id, NoAddr, 0, "-", 0)

PrintedPeerIdBeforeListen(outcome, key) ==
    IF outcome \in {"loop", "Listen"}
    THEN << StartingLine, LocalPeerIdLine(SwarmPeerId(key)) >>
    ELSE << StartingLine >>

\* What startup prints, by how it ends: the startup line comes before the
\* builder, the local peer id line after listen_on's `?`.
Printed(outcome, key) ==
    IF outcome = "loop"
    THEN << StartingLine, LocalPeerIdLine(SwarmPeerId(key)) >>
    ELSE << StartingLine >>

\* Startup up to the loop.  key is the identity with_new_identity() draws;
\* tcp and mdns are the outcomes of with_tcp and of mdns::Behaviour::new.
start_node ==
    /\ pc = "init"
    /\ \E key \in LocalKeys, tcp \in {"ok", "err"}, mdns \in {"ok", "err"} :
         LET res == ListenOn(listen_addr) IN
         IF TransportFatal(tcp) THEN
            /\ pc' = "returned"
            /\ result' = "Transport"
            /\ out' = Printed("Transport", key)
            /\ UNCHANGED << local_peer_id, mdns_peer_id, listen_called, listener >>
         ELSE IF MdnsPanics(mdns) THEN
            /\ pc' = "panicked"
            /\ out' = Printed("panic", key)
            /\ UNCHANGED << result, local_peer_id, mdns_peer_id, listen_called,
                            listener >>
         ELSE IF ListenFatal(res) THEN
            /\ pc' = "returned"
            /\ result' = "Listen"
            /\ out' = Printed("Listen", key)
            /\ local_peer_id' = SwarmPeerId(key)
            /\ mdns_peer_id' = MdnsPeerId(key)
            /\ listen_called' = res
            /\ UNCHANGED listener
         ELSE
            /\ pc' = "loop"
            /\ out' = Printed("loop", key)
            /\ local_peer_id' = SwarmPeerId(key)
            /\ mdns_peer_id' = MdnsPeerId(key)
            /\ listen_called' = res
            /\ listener' = "pending"
            /\ UNCHANGED result
    /\ UNCHANGED << listen_addr, events, emitted, budget, established, pending,
                    next_conn, mdns_nodes, mdns_renewed, taken >>


(* ------------------------- start_node: the match arms ------------------ *)

\* The slip of printing the bare address, without the /p2p/ suffix.
OnNewListenAddrBare(e, n) ==
    << Println("Listening", NoPeer, e.addr, 0, "-", n) >>

\* SwarmEvent::NewListenAddr: print the address with /p2p/<local peer id>.
OnNewListenAddr(e, n) ==
    << Println("Listening", local_peer_id, e.addr, 0, "-", n) >>

\* The ConnectionId swarm.dial gives the i-th record of a batch: dials that
\* are accepted take the ids from next_conn on, in order.
DialConn(dr, i) ==
    IF dr[i] = "ok"
    THEN next_conn + Cardinality({ j \in 1..(i - 1) : dr[j] = "ok" })
    ELSE 0

\* mdns::Event::Discovered(peers): for each record, a line, then swarm.dial(addr)
\* whose Result is dropped by .ok().  dr[i] is what the i-th dial returned.
RECURSIVE DiscoveredFrom(_, _, _, _)
DiscoveredFrom(e, n, dr, i) ==
    IF i > Len(e.peers) THEN << >>
    ELSE << Println("Discovered", e.peers[i].peer, e.peers[i].addr, 0, "-", n),
            Did("dial", dr[i], e.peers[i].peer, e.peers[i].addr,
                DialConn(dr, i), "-", n) >>
         \o DiscoveredFrom(e, n, dr, i + 1)

\* The slip of handling every discovered record twice.
OnMdnsDiscoveredTwice(e, n, dr) ==
    DiscoveredFrom(e, n, dr, 1) \o DiscoveredFrom(e, n, dr, 1)

\* The slip of dialing only the peers the swarm has no connection to and no
\* dial under way for.
OnMdnsDiscoveredSkipKnown(e, n, dr) ==
    SelectSeq(DiscoveredFrom(e, n, dr, 1),
              LAMBDA d : \/ d.k = "print"
                         \/ d.peer \notin { c.peer : c \in established \cup pending })

\* The slip of printing the discovered records without dialing them.
OnMdnsDiscoveredNoDial(e, n, dr) ==
    [ i \in 1..Len(e.peers) |->
        Println("Discovered", e.peers[i].peer, e.peers[i].addr, 0, "-", n) ]

OnMdnsDiscovered(e, n, dr) == DiscoveredFrom(e, n, dr, 1)

\* The slip of reporting only the first record of an Expired batch.
OnMdnsExpiredFirstOnly(e, n) ==
    << Println("Expired", e.peers[1].peer, e.peers[1].addr, 0, "-", n) >>

\* mdns::Event::Expired(peers): one line per record.
OnMdnsExpired(e, n) ==
    [ i \in 1..Len(e.peers) |->
        Println("Expired", e.peers[i].peer, e.peers[i].addr, 0, "-", n) ]

\* identify::Event::Received: one line.
OnIdentifyReceived(e, n) ==
    << Println("Identified", e.peer, NoAddr, e.conn, "-", n) >>

\* ping::Event { result: Ok(rtt) }: one line with the round-trip time.
OnPingOk(e, n) ==
    << Println("Ping", e.peer, NoAddr, e.conn, e.info, n) >>

\* SwarmEvent::ConnectionEstablished: one line.
OnConnectionEstablished(e, n) ==
    << Println("Connected", e.peer, NoAddr, e.conn, "-", n) >>

\* The slip of dialing a peer again when its connection closes.
OnConnectionClosedRedial(e, n) ==
    << Println("Disconnected", e.peer, NoAddr, e.conn, e.info, n),
       Did("dial", "ok", e.peer, NoAddr, next_conn, "-", n) >>

\* SwarmEvent::ConnectionClosed: one line with the cause.
OnConnectionClosed(e, n) ==
    << Println("Disconnected", e.peer, NoAddr, e.conn, e.info, n) >>

\* A catch-all arm that logs what it does not handle.
OnOtherLogged(e, n) == << Println("Unhandled", e.peer, e.addr, e.conn, e.info, n) >>

\* _ => {}
OnOther(e, n) == << >>

\* The match of the loop body: what the arm for event e, the n-th taken, does.
Arm(e, n, dr) ==
    CASE e.kind = "NewListenAddr" -> OnNewListenAddr(e, n)
      [] e.kind = "MdnsDiscovered" -> OnMdnsDiscovered(e, n, dr)
      [] e.kind = "MdnsExpired" -> OnMdnsExpired(e, n)
      [] e.kind = "IdentifyReceived" -> OnIdentifyReceived(e, n)
      [] e.kind = "Ping" /\ e.info = "Ok" -> OnPingOk(e, n)
      [] e.kind = "ConnectionEstablished" -> OnConnectionEstablished(e, n)
      [] e.kind = "ConnectionClosed" -> OnConnectionClosed(e, n)
      [] OTHER -> OnOther(e, n)

\* Variants in which an arm returns from start_node.
LoopExitsOnListenerFault(e) == e.kind \in {"ListenerError", "ListenerClosed"}

LoopExitsOnDialError(e) == e.kind = "OutgoingConnectionError"

\* Whether the arm for e leaves the loop: the loop has no break and no return.
LoopExits(e) == FALSE

ClosesOnPingFailure(e) ==
    IF e.kind = "Ping" /\ e.info # "Ok"
    THEN { c \in established : c.conn = e.conn }
    ELSE {}

\* The connections the arm for e closes: no arm calls disconnect_peer_id or
\* close_connection.
Closes(e) == {}

\* Whether a dial that swarm.dial rejects leaves the loop: .ok() drops the
\* Result, so it does not.
DialFatal(r) == FALSE

\* The dials of `did` that swarm.dial accepted, as the swarm's pending dials.
NewPending(did) ==
    { [conn |-> did[i].conn, peer |-> did[i].peer, addr |-> did[i].addr] :
        i \in { j \in 1..Len(did) : did[j].k = "dial" /\ did[j].what = "ok" } }

\* The slip of taking the newest event the swarm holds ready.
NewestEvent(q) == q[Len(q)]

\* swarm.select_next_some().await: the stream yields the oldest event.
NextEvent(q) == Head(q)

\* One iteration of the loop: select_next_some() returns the oldest event and
\* its arm runs to the end.
loop_iteration ==
    /\ pc = "loop"
    /\ events # << >>
    /\ LET e == NextEvent(events)
           n == Len(taken) + 1
       IN  \E dr \in [1..Len(e.peers) -> {"ok", "rejected"}] :
             LET did == Arm(e, n, dr) IN
             /\ events' = Tail(events)
             /\ taken' = Append(taken, e)
             /\ out' = out \o did
             /\ pending' = pending \cup NewPending(did)
             /\ next_conn' = next_conn + Cardinality(NewPending(did))
             /\ established' = established \ Closes(e)
             /\ LET exits == \/ LoopExits(e)
                             \/ \E i \in 1..Len(did) :
                                  did[i].k = "dial" /\ DialFatal(did[i].what)
                IN  /\ pc' = IF exits THEN "returned" ELSE "loop"
                    /\ result' = IF exits THEN "Fault" ELSE result
    /\ UNCHANGED << listen_addr, local_peer_id, mdns_peer_id, listen_called,
                    listener, emitted, budget, mdns_nodes, mdns_renewed >>


(* ------------------- the Swarm: what produces the events --------------- *)

\* The swarm is polled, and so moves and produces events, only inside the
\* loop's select_next_some().await.
Polled == pc = "loop" /\ Len(events) < MaxQueue

\* The swarm hands one more event to the stream.
Emit(e) ==
    /\ events' = Append(events, e)
    /\ emitted' = emitted + 1

\* The addresses the listener on addr reports, in order: addr itself when it
\* is concrete, else the address of each interface.
ListenerAddrs(addr) == IF addr \in ConcreteAddrs THEN << addr >> ELSE InterfaceAddrs

\* The NewListenAddr events produced so far.
Reported == { n \in 1..Len(taken \o events) : (taken \o events)[n].kind = "NewListenAddr" }

\* The listener reports its first bound address: the first event after
\* listen_on.
ListenerReady ==
    /\ Polled
    /\ listener = "pending"
    /\ listener' = "active"
    /\ events' = Append(events,
           Event("NewListenAddr", << >>, NoPeer, ListenerAddrs(listen_addr)[1],
                 0, "-"))
    /\ UNCHANGED << budget, pc, result, listen_addr, local_peer_id, mdns_peer_id,
                    listen_called, emitted, established, pending, next_conn,
                    mdns_nodes, mdns_renewed, taken, out >>

\* The listener reports the next address it is bound to.
ListenerNewAddr ==
    /\ Polled
    /\ listener = "active"
    /\ emitted < budget
    /\ Cardinality(Reported) < Len(ListenerAddrs(listen_addr))
    /\ Emit(Event("NewListenAddr", << >>, NoPeer,
                  ListenerAddrs(listen_addr)[Cardinality(Reported) + 1], 0, "-"))
    /\ UNCHANGED << budget, pc, result, listen_addr, local_peer_id, mdns_peer_id,
                    listen_called, listener, established, pending, next_conn,
                    mdns_nodes, mdns_renewed, taken, out >>

\* The listening socket fails after it was bound.
ListenerFails ==
    /\ Polled
    /\ listener = "active"
    /\ emitted < budget
    /\ \E kind \in {"ListenerError", "ListenerClosed"} :
         /\ listener' = IF kind = "ListenerClosed" THEN "failed" ELSE listener
         /\ Emit(Event(kind, << >>, NoPeer, listen_addr, 0, "-"))
    /\ UNCHANGED << budget, pc, result, listen_addr, local_peer_id, mdns_peer_id,
                    listen_called, established, pending, next_conn, mdns_nodes, mdns_renewed,
                    taken, out >>

\* mDNS sees records it does not hold yet.
MdnsDiscover ==
    /\ Polled
    /\ listener # "pending"
    /\ emitted < budget
    /\ \E b \in Batches(MdnsRecords \ mdns_nodes) :
         /\ mdns_nodes' = mdns_nodes \cup Range(b)
         /\ UNCHANGED mdns_renewed
         /\ Emit(Event("MdnsDiscovered", b, NoPeer, NoAddr, 0, "-"))
    /\ UNCHANGED << budget, pc, result, listen_addr, local_peer_id, mdns_peer_id,
                    listen_called, listener, established, pending, next_conn,
                    taken, out >>

\* An announcement arrives for a record mDNS holds: its TTL is renewed and
\* no event is produced.
MdnsRefresh ==
    /\ Polled
    /\ listener # "pending"
    /\ emitted < budget
    /\ \E r \in mdns_nodes \ mdns_renewed :
         mdns_renewed' = mdns_renewed \cup {r}
    /\ emitted' = emitted + 1
    /\ UNCHANGED << budget, pc, result, listen_addr, local_peer_id, mdns_peer_id,
                    listen_called, listener, events, established, pending,
                    next_conn, mdns_nodes, taken, out >>

\* The TTL of records mDNS holds runs out.
MdnsExpire ==
    /\ Polled
    /\ listener # "pending"
    /\ emitted < budget
    /\ \E b \in Batches(mdns_nodes) :
         /\ mdns_nodes' = mdns_nodes \ Range(b)
         /\ mdns_renewed' = mdns_renewed \ Range(b)
         /\ Emit(Event("MdnsExpired", b, NoPeer, NoAddr, 0, "-"))
    /\ UNCHANGED << budget, pc, result, listen_addr, local_peer_id, mdns_peer_id,
                    listen_called, listener, established, pending, next_conn,
                    taken, out >>

\* A pending dial completes its handshake: the pool gains the connection.
DialSucceeds ==
    /\ Polled
    /\ emitted < budget
    /\ \E d \in pending :
         /\ pending' = pending \ {d}
         /\ established' = established \cup
                {[conn |-> d.conn, peer |-> d.peer, endpoint |-> "dialer"]}
         /\ Emit(Event("ConnectionEstablished", << >>, d.peer, d.addr, d.conn, "-"))
    /\ UNCHANGED << budget, pc, result, listen_addr, local_peer_id, mdns_peer_id,
                    listen_called, listener, next_conn, mdns_nodes, mdns_renewed, taken, out >>

\* A pending dial fails.
DialFails ==
    /\ Polled
    /\ emitted < budget
    /\ \E d \in pending :
         /\ pending' = pending \ {d}
         /\ Emit(Event("OutgoingConnectionError", << >>, d.peer, d.addr, d.conn, "-"))
    /\ UNCHANGED << budget, pc, result, listen_addr, local_peer_id, mdns_peer_id,
                    listen_called, listener, established, next_conn, mdns_nodes, mdns_renewed,
                    taken, out >>

\* A remote peer dials this node and the listener accepts.  A remote holds at
\* most one connection of its own making to this node at a time.
IncomingConnection ==
    /\ Polled
    /\ listener = "active"
    /\ emitted < budget
    /\ \E p \in Peers :
         /\ \A c \in established : c.peer = p => c.endpoint # "listener"
         /\ established' = established \cup
                {[conn |-> next_conn, peer |-> p, endpoint |-> "listener"]}
         /\ next_conn' = next_conn + 1
         /\ Emit(Event("ConnectionEstablished", << >>, p, NoAddr, next_conn, "-"))
    /\ UNCHANGED << budget, pc, result, listen_addr, local_peer_id, mdns_peer_id,
                    listen_called, listener, pending, mdns_nodes, mdns_renewed, taken, out >>

\* A connection ends because the remote or the link closed it.
ConnectionError ==
    /\ Polled
    /\ \E c \in established :
         /\ established' = established \ {c}
         /\ events' = Append(events,
                Event("ConnectionClosed", << >>, c.peer, NoAddr, c.conn, "IO"))
    /\ UNCHANGED << budget, pc, result, listen_addr, local_peer_id, mdns_peer_id,
                    listen_called, listener, emitted, pending, next_conn,
                    mdns_nodes, mdns_renewed, taken, out >>

\* A swarm whose connections are never closed for being idle.
IdleTimeoutNever(c) == FALSE /\ UNCHANGED vars

\* with_idle_connection_timeout(60 s): a connection with no stream that
\* counts for keep-alive (identify and ping hold none) is closed.
IdleTimeout(c) ==
    /\ Polled
    /\ c \in established
    /\ established' = established \ {c}
    /\ events' = Append(events,
           Event("ConnectionClosed", << >>, c.peer, NoAddr, c.conn,
                 "KeepAliveTimeout"))
    /\ UNCHANGED << budget, pc, result, listen_addr, local_peer_id, mdns_peer_id,
                    listen_called, listener, emitted, pending, next_conn,
                    mdns_nodes, mdns_renewed, taken, out >>

\* Every ConnectionId a run can hand out.
ConnIds == 1..(MaxEvents * MaxBatch)

\* The idle timer of the connection with ConnectionId id.
IdleTimeoutOf(id) == \E c \in established : c.conn = id /\ IdleTimeout(c)

IdleTimeouts == \E id \in ConnIds : IdleTimeoutOf(id)

\* identify on a connection: the remote's info arrives, or ours was sent.
IdentifyEvent ==
    /\ Polled
    /\ emitted < budget
    /\ \E c \in established, kind \in {"IdentifyReceived", "IdentifySent"} :
         Emit(Event(kind, << >>, c.peer, NoAddr, c.conn, "-"))
    /\ UNCHANGED << budget, pc, result, listen_addr, local_peer_id, mdns_peer_id,
                    listen_called, listener, established, pending, next_conn,
                    mdns_nodes, mdns_renewed, taken, out >>

\* ping on a connection (every 15 s): a round-trip time, or a failure.
PingEvent ==
    /\ Polled
    /\ emitted < budget
    /\ \E c \in established, res \in {"Ok", "Timeout"} :
         Emit(Event("Ping", << >>, c.peer, NoAddr, c.conn, res))
    /\ UNCHANGED << budget, pc, result, listen_addr, local_peer_id, mdns_peer_id,
                    listen_called, listener, established, pending, next_conn,
                    mdns_nodes, mdns_renewed, taken, out >>

(* ------------------------------ the system ----------------------------- *)

InitWith(b) ==
    /\ budget = b
    /\ pc = "init"
    /\ result = "none"
    /\ listen_addr \in ListenAddrs
    /\ local_peer_id = NoPeer
    /\ mdns_peer_id = NoPeer
    /\ listen_called = "none"
    /\ listener = "none"
    /\ events = << >>
    /\ emitted = 0
    /\ established = {}
    /\ pending = {}
    /\ next_conn = 1
    /\ mdns_nodes = {}
    /\ mdns_renewed = {}
    /\ taken = << >>
    /\ out = << >>

Init == InitWith(MaxEvents)

FairInit == InitWith(MaxFairEvents)

Next ==
    \/ start_node
    \/ loop_iteration
    \/ ListenerReady
    \/ ListenerNewAddr
    \/ ListenerFails
    \/ MdnsDiscover
    \/ MdnsRefresh
    \/ MdnsExpire
    \/ DialSucceeds
    \/ DialFails
    \/ IncomingConnection
    \/ ConnectionError
    \/ IdleTimeouts
    \/ IdentifyEvent
    \/ PingEvent

Spec == Init /\ [][Next]_vars

\* The runtime keeps polling the loop's future, so a ready event is taken;
\* each connection's idle timer runs out unless the connection ends before.
FairSpec ==
    /\ FairInit
    /\ [][Next]_vars
    /\ WF_vars(loop_iteration)
    /\ \A id \in ConnIds : WF_vars(IdleTimeoutOf(id))


(* ------------------------- what the claims speak of -------------------- *)

\* Every event the swarm has produced so far, in the order produced.
History == taken \o events

\* The entries of out that satisfy P, as positions.
Prints(n) == { j \in 1..Len(out) : out[j].k = "print" /\ out[j].ev = n }

Dials == { j \in 1..Len(out) : out[j].k = "dial" }

LinesOf(what, p) ==
    { j \in 1..Len(out) : out[j].k = "print" /\ out[j].what = what /\ out[j].peer = p }

\* The event kinds section 6 of the specification lists as observable, and
\* the number of things each carries that are to be surfaced.
ListedKinds ==
    {"NewListenAddr", "MdnsDiscovered", "MdnsExpired", "IdentifyReceived",
     "Ping", "ConnectionEstablished", "ConnectionClosed"}

Surfaced(e) == IF e.kind \in {"MdnsDiscovered", "MdnsExpired"} THEN Len(e.peers) ELSE 1

BadListenAddr == listen_addr \in MalformedAddrs \cup BoundAddrs

(* ------------------------------- C1 ------------------------------------ *)

\* C1: start_node ends in no other way than returning the Transport error or
\* returning the Listen error; otherwise it is in (or on its way to) the loop.
\* Refuted: mdns::Behaviour::new failing panics in .expect().
C1_OnlyTwoFatalOutcomes ==
    \/ pc \in {"init", "loop"}
    \/ pc = "returned" /\ result \in {"Transport", "Listen"}

(* ------------------------------- C2 ------------------------------------ *)

\* C2: with a malformed or already-bound listen address, listen_on fails,
\* start_node returns the Listen error, and the loop is never entered: no
\* event is taken, no dial is issued, and nothing but the startup line is
\* printed.
C2_BadListenAddrNeverLoops ==
    BadListenAddr =>
        /\ pc # "loop"
        /\ taken = << >>
        /\ Dials = {}
        /\ \A j \in 1..Len(out) : out[j].what = "Starting"
        /\ listen_called # "none" =>
               listen_called = "err" /\ pc = "returned" /\ result = "Listen"

C2_Witness ==
    /\ listen_addr \in BoundAddrs
    /\ listen_called = "err"
    /\ pc = "returned"
    /\ result = "Listen"
    /\ Len(out) = 1

(* ------------------------------- C3 ------------------------------------ *)

\* C3: every taken event of a listed kind has its status lines: one per
\* record of an mDNS event, one for any other.
\* Refuted: a ping failure matches no arm and prints nothing.
C3_EveryListedEventSurfaced ==
    \A n \in 1..Len(taken) :
        taken[n].kind \in ListedKinds => Cardinality(Prints(n)) >= Surfaced(taken[n])

(* ------------------------------- C5 ------------------------------------ *)

\* C5: the connection table holds at most one connection per remote peer.
\* Refuted: every discovered record is dialed, so a peer seen at two
\* addresses, or one that also dials in, gets two connections.
C5_OneConnectionPerPeer ==
    \A p \in Peers : Cardinality({ c \in established : c.peer = p }) <= 1

(* ------------------------------- C6 ------------------------------------ *)

\* C6: per peer the loop sees ConnectionEstablished and ConnectionClosed
\* alternate, one of each per session, and every close carries a cause.
\* Refuted through C5: two connections to one peer give two Connected lines
\* with no Disconnected line between them.
C6_OneEstablishedOneClosed ==
    \A p \in Peers :
        /\ Cardinality(LinesOf("Disconnected", p)) <= Cardinality(LinesOf("Connected", p))
        /\ Cardinality(LinesOf("Connected", p)) <= Cardinality(LinesOf("Disconnected", p)) + 1
        /\ \A j \in LinesOf("Disconnected", p) : out[j].info # "-"

(* ------------------------------- C8 ------------------------------------ *)

\* C8: once in the loop, start_node stays in the loop whatever event it takes.
C8_LoopNeverExits == [][pc = "loop" => pc' = "loop"]_vars

C8_Witness ==
    /\ pc = "loop"
    /\ Len(taken) >= 3
    /\ \E n \in 1..Len(taken) : taken[n].kind = "ListenerClosed"

(* ------------------------------- C9 ------------------------------------ *)

\* C9: once a listener error or listener closed event has been taken,
\* start_node has left the loop and returned a failure.
\* Refuted: both events fall to the catch-all arm and the loop goes on.
C9_ListenerFaultIsFatal ==
    (\E n \in 1..Len(taken) : taken[n].kind \in {"ListenerError", "ListenerClosed"})
        => pc = "returned" /\ result # "none"


(* ------------------------------- C4 ------------------------------------ *)

\* Positions an event can have in History: the listener's first event, the
\* events under MaxEvents and a close for each connection.
HistoryBound == 2 * MaxEvents + 1

DiscoveredAt(n, r) ==
    /\ n <= Len(History)
    /\ History[n].kind = "MdnsDiscovered"
    /\ r \in Range(History[n].peers)

DialedFor(n, r) ==
    \E j \in Dials : out[j].ev = n /\ out[j].peer = r.peer /\ out[j].addr = r.addr

ExpiredAfter(n, r) ==
    \E m \in (n + 1)..Len(History) :
        History[m].kind = "MdnsExpired" /\ r \in Range(History[m].peers)

\* C4: a record that mDNS has discovered leads to a swarm.dial of its address
\* by the arm that takes its event, or to an Expired event for it.
C4_DiscoveredLeadsToDialOrExpiry ==
    \A n \in 1..HistoryBound : \A r \in MdnsRecords :
        DiscoveredAt(n, r) ~> (DialedFor(n, r) \/ ExpiredAfter(n, r))

C4_Witness ==
    \E n \in 1..Len(taken) : \E r \in MdnsRecords :
        /\ DiscoveredAt(n, r)
        /\ DialedFor(n, r)
        /\ ~ExpiredAfter(n, r)
        /\ Len(taken[n].peers) = MaxBatch

(* ------------------------------- C7 ------------------------------------ *)

TakenFor(kind, c) ==
    \E n \in 1..Len(taken) : taken[n].kind = kind /\ taken[n].conn = c

\* C7: a ConnectionEstablished event the loop has taken for a connection leads
\* to a ConnectionClosed event taken for that connection.
C7_EstablishedLeadsToClosed ==
    \A c \in ConnIds :
        TakenFor("ConnectionEstablished", c) ~> TakenFor("ConnectionClosed", c)

C7_Witness ==
    \E n \in 1..Len(taken) :
        /\ taken[n].kind = "ConnectionClosed"
        /\ taken[n].info = "KeepAliveTimeout"
        /\ TakenFor("ConnectionEstablished", taken[n].conn)
        /\ \E j \in 1..Len(out) : out[j].what = "Disconnected" /\ out[j].ev = n


(* ------------------------------- C10 ----------------------------------- *)

\* What the loop iteration being taken adds to out.
Added == SubSeq(out', Len(out) + 1, Len(out'))

TakesDialError ==
    /\ taken' # taken
    /\ Head(events).kind = "OutgoingConnectionError"

IssuesRejectedDial ==
    /\ taken' # taken
    /\ \E j \in 1..Len(Added) : Added[j].k = "dial" /\ Added[j].what = "rejected"

AcceptedDials(did) ==
    { j \in 1..Len(did) : did[j].k = "dial" /\ did[j].what = "ok" }

\* No ConnectionEstablished event for a connection whose dial has failed.
NoEstablishedAfterDialError ==
    \A n \in 1..Len(History) :
        History[n].kind = "OutgoingConnectionError" =>
            \A m \in 1..Len(History) :
                ~(History[m].kind = "ConnectionEstablished"
                  /\ History[m].conn = History[n].conn)

\* C10 as stated: a dial failure leaves start_node in the loop with nothing
\* returned, and is logged: a taken OutgoingConnectionError has a line, and so
\* has every dial swarm.dial rejected.
\* Refuted in its last part: neither prints anything.
C10_DialFailureNonFatalAndLogged ==
    /\ taken # << >> => pc = "loop" /\ result = "none"
    /\ NoEstablishedAfterDialError
    /\ \A n \in 1..Len(taken) :
           taken[n].kind = "OutgoingConnectionError" => Prints(n) # {}
    /\ \A j \in Dials :
           out[j].what = "rejected" =>
               \E m \in Prints(out[j].ev) :
                   out[m].what = "DialFailed" /\ out[m].addr = out[j].addr

\* C10, amended: the iteration that takes a dial failure, or whose swarm.dial
\* is rejected, stays in the loop, returns nothing, closes no connection and
\* starts no connection for the failed dial; it prints nothing for the
\* failure (a rejected dial's iteration prints only its Discovered lines);
\* and no ConnectionEstablished event comes for a dial that failed.
C10_DialFailureNonFatalAndSilent ==
    [][ /\ TakesDialError =>
              /\ pc' = "loop"
              /\ result' = "none"
              /\ established' = established
              /\ pending' = pending
              /\ out' = out
        /\ IssuesRejectedDial =>
              /\ pc' = "loop"
              /\ result' = "none"
              /\ established' = established
              /\ Cardinality(pending') =
                     Cardinality(pending) + Cardinality(AcceptedDials(Added))
              /\ \A j \in 1..Len(Added) :
                     Added[j].k = "print" => Added[j].what = "Discovered"
        /\ NoEstablishedAfterDialError'
      ]_vars

C10_Witness ==
    /\ pc = "loop"
    /\ result = "none"
    /\ established # {}
    /\ \E n \in 1..Len(taken) :
           taken[n].kind = "OutgoingConnectionError" /\ Prints(n) = {}
    /\ \E j \in Dials : out[j].what = "rejected"

(* ------------------------------- C11 ----------------------------------- *)

TakesPingFailure ==
    /\ taken' # taken
    /\ Head(events).kind = "Ping"
    /\ Head(events).info # "Ok"

\* C11: the iteration that takes a ping failure closes no connection, leaves
\* the connection table and the pending dials as they are, issues no dial,
\* and stays in the loop with the failure event consumed, ready for the next.
C11_PingFailureIsObservational ==
    [][ TakesPingFailure =>
            /\ established' = established
            /\ pending' = pending
            /\ next_conn' = next_conn
            /\ \A j \in 1..Len(Added) : Added[j].k # "dial"
            /\ pc' = "loop"
            /\ result' = "none"
            /\ events' = Tail(events)
      ]_vars

C11_Witness ==
    /\ pc = "loop"
    /\ \E n \in 1..Len(taken) :
           /\ taken[n].kind = "Ping"
           /\ taken[n].info = "Timeout"
           /\ \E c \in established : c.conn = taken[n].conn
    /\ \E n \in 1..Len(taken) : taken[n].kind = "Ping" /\ taken[n].info = "Ok"

(* ------------------------------- C12 ----------------------------------- *)

\* C12: every dial start_node has issued was issued by the arm of an mDNS
\* Discovered event, for a record of that event; and after listen_on failed
\* there is no listener and start_node has returned: listen is not retried.
C12_DialsOnlyOnDiscovery ==
    /\ \A j \in Dials :
           /\ out[j].ev \in 1..Len(taken)
           /\ taken[out[j].ev].kind = "MdnsDiscovered"
           /\ [peer |-> out[j].peer, addr |-> out[j].addr]
                  \in Range(taken[out[j].ev].peers)
    /\ listen_called = "err" => listener = "none" /\ pc = "returned"

\* Dials were issued, and after them a connection closed, a record expired, a
\* dial failed: none of them brought a dial.
C12_Witness ==
    /\ Dials # {}
    /\ \E n \in 1..Len(taken) :
           /\ taken[n].kind \in {"ConnectionClosed", "OutgoingConnectionError"}
           /\ \E m \in 1..(n - 1) : taken[m].kind = "MdnsDiscovered"
           /\ \A j \in Dials : out[j].ev < n

(* ------------------------------- C13 ----------------------------------- *)

\* The lines the n-th taken event got are one Listening line, with the
\* event's address and the local peer id.
OneListeningLine(n) ==
    /\ Cardinality(Prints(n)) = 1
    /\ \A j \in Prints(n) :
           /\ out[j].what = "Listening"
           /\ out[j].addr = taken[n].addr
           /\ out[j].peer = local_peer_id
           /\ local_peer_id # NoPeer

\* C13 as stated: for any valid listen address, once listen_on has succeeded
\* and the loop has run an iteration, the swarm has produced exactly one
\* NewListenAddr event; it carries listen_addr and has its Listening line.
\* Refuted: a listener on an unspecified address reports the address of each
\* interface it is bound to, none of them listen_addr.
C13_OneNewListenAddrForValidAddr ==
    (listen_addr \in ValidAddrs /\ listen_called = "ok" /\ Len(taken) >= 1) =>
        /\ taken[1].kind = "NewListenAddr"
        /\ taken[1].addr = listen_addr
        /\ Cardinality(Reported) = 1
        /\ OneListeningLine(1)

\* C13, amended: once listen_on has succeeded and the loop has run an
\* iteration, the first event taken is a NewListenAddr, and every NewListenAddr
\* taken has exactly one Listening line with its address and the local peer
\* id; for a concrete listen address there is exactly one NewListenAddr and
\* it carries listen_addr; for an unspecified one each carries a bound
\* interface address.
C13_NewListenAddrSurfaced ==
    (listen_called = "ok" /\ Len(taken) >= 1) =>
        /\ taken[1].kind = "NewListenAddr"
        /\ \A n \in 1..Len(taken) :
               taken[n].kind = "NewListenAddr" => OneListeningLine(n)
        /\ listen_addr \in ConcreteAddrs =>
               Cardinality(Reported) = 1 /\ taken[1].addr = listen_addr
        /\ listen_addr \in UnspecifiedAddrs =>
               \A n \in Reported : History[n].addr \in Range(InterfaceAddrs)

C13_Witness ==
    /\ listen_addr \in ConcreteAddrs
    /\ Len(taken) = 1
    /\ taken[1].kind = "NewListenAddr"
    /\ taken[1].addr = listen_addr
    /\ OneListeningLine(1)

(* ------------------------------- C14 ----------------------------------- *)

\* The event the iteration takes is of a kind no arm names.
TakesUnhandledKind ==
    /\ taken' # taken
    /\ Head(events).kind \notin ListedKinds

\* C14: the iteration that takes an event of a kind no arm names prints
\* nothing, issues no dial, leaves the swarm's state (listener, connection
\* table, pending dials, next connection id, mDNS records) as it is, returns
\* no error, and stays in the loop with the event consumed.
C14_UnhandledKindsIgnored ==
    [][ TakesUnhandledKind =>
            /\ out' = out
            /\ established' = established
            /\ pending' = pending
            /\ next_conn' = next_conn
            /\ listener' = listener
            /\ mdns_nodes' = mdns_nodes
            /\ local_peer_id' = local_peer_id
            /\ pc' = "loop"
            /\ result' = "none"
            /\ events' = Tail(events)
      ]_vars

C14_Witness ==
    /\ pc = "loop"
    /\ Len(taken) >= 3
    /\ \E n \in 1..Len(taken) : taken[n].kind = "IdentifySent" /\ Prints(n) = {}
    /\ \E n \in 1..Len(taken) : taken[n].kind = "ListenerError" /\ Prints(n) = {}

(* ------------------------------- C15 ----------------------------------- *)

\* The events of a kind, among those of sequence h, that carry record r.
Carrying(h, kind, r) ==
    { n \in 1..Len(h) : h[n].kind = kind /\ r \in Range(h[n].peers) }

RecordLines(what, r) ==
    { j \in 1..Len(out) :
        out[j].k = "print" /\ out[j].what = what
        /\ out[j].peer = r.peer /\ out[j].addr = r.addr }

\* C15: each time a record leaves mDNS's table there is one Expired event for
\* it, and no Expired event comes without a Discovered one before it: the
\* Discovered and Expired events of a record alternate, the record being
\* held exactly after a Discovered.  The loop prints one expired line for
\* each record of each Expired event it has taken.
C15_OneExpiryPerDiscovery ==
    \A r \in MdnsRecords :
        /\ Cardinality(Carrying(History, "MdnsDiscovered", r)) =
               Cardinality(Carrying(History, "MdnsExpired", r))
               + (IF r \in mdns_nodes THEN 1 ELSE 0)
        /\ Cardinality(RecordLines("Expired", r)) =
               Cardinality(Carrying(taken, "MdnsExpired", r))
        /\ r \in mdns_renewed => r \in mdns_nodes

\* Two records discovered and expired in one batch each, both events taken.
C15_Witness ==
    /\ mdns_nodes = {}
    /\ \A r \in MdnsRecords :
           /\ Cardinality(Carrying(taken, "MdnsDiscovered", r)) = 1
           /\ Cardinality(Carrying(taken, "MdnsExpired", r)) = 1
           /\ Cardinality(RecordLines("Expired", r)) = 1

(* ------------------------------- C16 ----------------------------------- *)

\* The step absorbs an announcement for a record mDNS already holds.
AbsorbsDuplicate == mdns_nodes' = mdns_nodes /\ mdns_renewed' # mdns_renewed

DialsTo(r) ==
    { j \in Dials : out[j].peer = r.peer /\ out[j].addr = r.addr }

\* Per record: at most one Discovered event since its last expiry, and one
\* discovered line and one dial for each Discovered event taken.
OneDiscoveryPerHolding ==
    \A r \in MdnsRecords :
        /\ Cardinality(Carrying(History, "MdnsDiscovered", r)) <=
               Cardinality(Carrying(History, "MdnsExpired", r)) + 1
        /\ Cardinality(RecordLines("Discovered", r)) =
               Cardinality(Carrying(taken, "MdnsDiscovered", r))
        /\ Cardinality(DialsTo(r)) =
               Cardinality(Carrying(taken, "MdnsDiscovered", r))

\* C16: an announcement for a record mDNS holds produces no event, so no
\* line and no dial; each record has one discovered line and one dial per
\* time it entered the table.
C16_DiscoveryIdempotent ==
    [][ /\ AbsorbsDuplicate =>
               events' = events /\ out' = out /\ pending' = pending
        /\ OneDiscoveryPerHolding'
      ]_vars

C16_Witness ==
    \E r \in mdns_renewed :
        /\ events = << >>
        /\ Cardinality(Carrying(taken, "MdnsDiscovered", r)) = 1
        /\ Cardinality(RecordLines("Discovered", r)) = 1
        /\ Cardinality(DialsTo(r)) = 1

(* ------------------------------- C17 ----------------------------------- *)

\* What the arm of event e leaves in out: a line and a dial per discovered
\* record, a line per expired record, a line for the other listed kinds.
EntriesOf(e) ==
    CASE e.kind = "MdnsDiscovered" -> 2 * Len(e.peers)
      [] e.kind = "MdnsExpired" -> Len(e.peers)
      [] e.kind \in {"NewListenAddr", "IdentifyReceived",
                     "ConnectionEstablished", "ConnectionClosed"} -> 1
      [] e.kind = "Ping" /\ e.info = "Ok" -> 1
      [] OTHER -> 0

\* The prints and dials of no two events interleave, they follow the order
\* in which the events were taken, and each taken event has all of its own.
HandlersRunToCompletion ==
    /\ \A j \in 2..Len(out) : out[j - 1].ev <= out[j].ev
    /\ \A j \in 1..Len(out) : out[j].ev <= Len(taken)
    /\ \A n \in 1..Len(taken) :
           Cardinality({ j \in 1..Len(out) : out[j].ev = n }) =
               EntriesOf(taken[n])

\* The step takes an event.
TakesEvent == taken' # taken

\* C17: the loop takes the events one at a time, oldest first, and all the
\* prints and dials of one event are made before the next is taken.
C17_OneEventAtATimeInOrder ==
    [][ /\ TakesEvent =>
               /\ events # << >>
               /\ taken' = Append(taken, Head(events))
               /\ events' = Tail(events)
        /\ HandlersRunToCompletion'
      ]_vars

\* Two events were ready at once, the first a batch of two records, and both
\* have been handled.
C17_Witness ==
    \E n \in 1..Len(taken) :
        /\ n + 1 <= Len(taken)
        /\ taken[n].kind = "MdnsDiscovered"
        /\ Len(taken[n].peers) = 2
        /\ emitted >= n + 1
        /\ EntriesOf(taken[n + 1]) > 0
        /\ taken[n + 1].kind # taken[n].kind
        /\ events = << >>

(* ------------------------------- C18 ----------------------------------- *)

\* Lines of out of one sort, as positions.
Lines(what) ==
    { j \in 1..Len(out) : out[j].k = "print" /\ out[j].what = what }

\* Inside the loop the node has one peer id: the one discovery was given,
\* the one of the local peer id line, the one of every listening line.
OneIdentity ==
    pc = "loop" =>
        /\ local_peer_id # NoPeer
        /\ mdns_peer_id = local_peer_id
        /\ Cardinality(Lines("LocalPeerId")) = 1
        /\ \A j \in Lines("LocalPeerId") \cup Lines("Listening") :
               out[j].peer = local_peer_id

\* C18: a running node has one peer id; once set it never changes, and
\* discovery, the local peer id line and every listening line carry it.
C18_OnePeerIdentity ==
    [][ /\ local_peer_id # NoPeer =>
               local_peer_id' = local_peer_id /\ mdns_peer_id' = mdns_peer_id
        /\ OneIdentity'
      ]_vars

\* Two listening lines, printed with other events between or after them.
C18_Witness ==
    /\ pc = "loop"
    /\ Cardinality(Lines("Listening")) = 2
    /\ Len(taken) >= 3
    /\ \A j \in Lines("Listening") : out[j].peer = mdns_peer_id

(* ------------------------------- C19 ----------------------------------- *)

\* The entries of out made for the n-th event taken, in order.
DidFor(n) == SelectSeq(out, LAMBDA d : d.ev = n)

\* The discovered records in the first n events taken.
RECURSIVE RecordsProcessed(_)
RecordsProcessed(n) ==
    IF n = 0 THEN 0
    ELSE RecordsProcessed(n - 1)
         + (IF taken[n].kind = "MdnsDiscovered" THEN Len(taken[n].peers) ELSE 0)

\* C19: for each Discovered event taken, out holds for each record of the
\* batch, in batch order, its line and then one dial of its address, whatever
\* connections and dials exist; the dials issued are as many as the records.
C19_OneDialPerRecord ==
    /\ \A n \in 1..Len(taken) :
           taken[n].kind = "MdnsDiscovered" =>
               /\ Len(DidFor(n)) = 2 * Len(taken[n].peers)
               /\ \A i \in 1..Len(taken[n].peers) :
                      LET line == DidFor(n)[2 * i - 1]
                          dial == DidFor(n)[2 * i]
                          r == taken[n].peers[i]
                      IN  /\ line.k = "print" /\ line.what = "Discovered"
                          /\ line.peer = r.peer /\ line.addr = r.addr
                          /\ dial.k = "dial"
                          /\ dial.peer = r.peer /\ dial.addr = r.addr
    /\ Cardinality(Dials) = RecordsProcessed(Len(taken))

\* A batch of two records of one peer was dialed twice, the second dial with
\* the first under way, and with a connection from that peer open since
\* before the batch was taken.
C19_Witness ==
    \E n \in 1..Len(taken) :
        /\ taken[n].kind = "MdnsDiscovered"
        /\ Len(taken[n].peers) = 2
        /\ taken[n].peers[1].peer = taken[n].peers[2].peer
        /\ Len(DidFor(n)) = 4
        /\ DidFor(n)[2].what = "ok"
        /\ DidFor(n)[4].what = "ok"
        /\ \E c \in established :
               /\ c.peer = taken[n].peers[1].peer
               /\ c.conn < DidFor(n)[2].conn

(* ------------------------------- C20 ----------------------------------- *)

\* The status lines the loop prints for events.
StatusLines == { j \in 1..Len(out) : out[j].k = "print" /\ out[j].ev > 0 }

\* C20: once start_node has begun, the startup line is the first output, in
\* runs that fail too; the local peer id line is printed at most once, only
\* when listen_on succeeded, and before every status line of an event.
C20_StartupOutputOrdered ==
    /\ pc # "init" =>
           /\ Len(out) >= 1
           /\ out[1].k = "print" /\ out[1].what = "Starting"
           /\ Lines("Starting") = {1}
    /\ Cardinality(Lines("LocalPeerId")) <= 1
    /\ Lines("LocalPeerId") # {} => listen_called = "ok"
    /\ \A j \in StatusLines : \E i \in Lines("LocalPeerId") : i < j
    /\ pc \in {"returned", "panicked"} /\ result # "Fault" =>
           Lines("LocalPeerId") = {}

\* A run that printed both startup lines and then status lines of two sorts.
C20_Witness ==
    /\ Lines("LocalPeerId") = {2}
    /\ Lines("Listening") # {}
    /\ Lines("Connected") # {}
    /\ Len(out) >= 4

====
